---- MODULE Spec2Model ----
(***************************************************************************)
(* LayerManager of deck.gl (src/src/lib/layer-manager.js): the             *)
(* reconciliation of the layers rendered for a frame against the layers of *)
(* the previous frame, the viewport context and the redraw check.          *)
(*                                                                         *)
(* JavaScript values are modelled as follows.                              *)
(*  - null and undefined are the empty tuple <<>>; an object reference x   *)
(*    that may be null is the one-element tuple <<x>>.                     *)
(*  - A layer object is a record [id, props, oldProps, state, fails].      *)
(*    The application renders fresh layer objects for every frame (source  *)
(*    lines 18-27), so a layer object is identified by where it is held:   *)
(*    <<"old", i>> is the i-th layer of the forest being replaced          *)
(*    (this.prevLayers), <<"new", j>> the j-th layer of the generated      *)
(*    forest (this.layers).                                                *)
(*  - A state object is a record [tok, layer, needsRedraw]: tok is its     *)
(*    address (two state references are the same object iff their tok is   *)
(*    equal), layer its back-link, needsRedraw the flag that the layer's   *)
(*    getNeedsRedraw reads.                                                *)
(*  - The callbacks of a layer (initializeLayer, updateLayer,              *)
(*    finalizeLayer, renderLayers) belong to the Layer class, which is not *)
(*    part of this file: `fails` is the set of callbacks of the layer that *)
(*    raise, and the children renderLayers returns are given by the node   *)
(*    of the rendered tree the layer was made from.                        *)
(***************************************************************************)
EXTENDS Integers, Sequences, FiniteSets, TLC

VARIABLES
  layers,      \* this.layers: the live forest
  prevLayers,  \* this.prevLayers
  drewLayers,  \* this.drewLayers
  oldContext,  \* this.oldContext
  context,     \* this.context
  op,          \* history: the operation the application called last
  frames,      \* history: the number of updateLayers calls so far
  newLayers,   \* history: the newLayers argument, when the last operation was updateLayers
  before,      \* history: the live forest when that updateLayers began
  calls,       \* history: the layer callbacks and state transfers of the last operation, in order
  thrown,      \* history: the error the last operation threw, or <<>>
  redraw       \* history: what the last needsRedraw returned (value), and whether it
               \* found the forest empty after a check that saw layers (emptied)

vars == <<layers, prevLayers, drewLayers, oldContext, context,
          op, frames, newLayers, before, calls, thrown, redraw>>

(***************************************************************************)
(* Bounds of the model and the values the application draws from.          *)
(***************************************************************************)
\* Most entries (layers and null holes, children included) in the tree rendered for one frame.
MaxNodes == 3
\* Most failing callbacks among the layers rendered for one frame.
MaxFaults == 1
\* Most frames (updateLayers calls) of a run of the reconciliation.
MaxFrames == 2

Ids == {"a", "b", "c"}
\* The ids of the layers that may have a failing callback.
FaultyIds == {"a", "b"}
Callbacks == {"initialize", "update", "finalize", "renderLayers"}

Null == <<>>
NoRef == <<"none", 0>>

\* ------------------------------------------------------------------------
\* The trees the application renders: an entry is Null (a hole) or <<node>>,
\* node = [id, fails, children], children the entries renderLayers returns.
\* ------------------------------------------------------------------------
RECURSIVE ForestsOf(_, _, _)
RECURSIVE EntriesOf(_, _, _)

\* Entries with ids among `ids` spanning exactly n tree entries with exactly k
\* failing callbacks.
EntriesOf(ids, n, k) ==
  (IF n = 1 /\ k = 0 THEN {Null} ELSE {})
  \cup UNION { UNION { { <<[id |-> id, fails |-> f, children |-> c]>> :
                           id \in ids,
                           c \in (IF "renderLayers" \in f
                                    THEN (IF n = 1 /\ k = i THEN {<<>>} ELSE {})
                                    ELSE ForestsOf(ids, n - 1, k - i)) } :
                       f \in {s \in SUBSET Callbacks : Cardinality(s) = i} } :
               i \in 0..k }

\* Sequences of such entries spanning exactly n tree entries with exactly k
\* failing callbacks.
ForestsOf(ids, n, k) ==
  IF n = 0 THEN (IF k = 0 THEN {<<>>} ELSE {})
  ELSE UNION { UNION { { <<e>> \o rest : e \in EntriesOf(ids, m, j),
                                       rest \in ForestsOf(ids, n - m, k - j) } :
                       j \in 0..k } :
               m \in 1..n }

\* What the application renders for a frame: any tree without failing
\* callbacks, or a tree over FaultyIds with failing callbacks.
NewForests ==
  UNION { ForestsOf(Ids, n, 0) : n \in 0..MaxNodes }
  \cup UNION { ForestsOf(FaultyIds, n, k) : n \in 0..MaxNodes, k \in 1..MaxFaults }

\* ------------------------------------------------------------------------
\* References, events and errors.
\* ------------------------------------------------------------------------
OldRef(i) == <<"old", i>>
NewRef(j) == <<"new", j>>

\* One entry of the history `calls`: a callback made on `layer`, or the state
\* transfer from the old layer `from` to the new layer `layer`.
Event(o, layer, from) == [op |-> o, layer |-> layer, from |-> from]

\* An error object: the callback (or sanity check) that raised, and on which layer.
Err(o, layer) == <<[op |-> o, layer |-> layer]>>

\* JavaScript's a || b on values that are null or an object.
OrElse(a, b) == IF a # Null THEN a ELSE b

\* A layer object as the application constructs it: no state, no oldProps.
NewLayer(node) ==
  [id |-> node.id, props |-> [id |-> node.id, visible |-> TRUE], oldProps |-> Null,
   state |-> Null, fails |-> node.fails]

\* newLayers.filter(newLayer => Boolean(newLayer))
FilterNull(ls) == SelectSeq(ls, LAMBDA e : e # Null)

\* ------------------------------------------------------------------------
\* The run state threaded through one updateLayers call:
\*   old     oldLayers, the layer objects of the forest being replaced
\*   gen     generatedLayers
\*   map     oldLayerMap: a key that is absent is undefined
\*   calls   the callbacks and transfers made so far
\*   nextTok the address of the next state object a layer creates
\* ------------------------------------------------------------------------

\* Layer.initializeLayer: creates the layer's state, or raises and leaves none.
InitializeLayerCallback(layer, tok) ==
  IF "initialize" \in layer.fails
  THEN [raised |-> TRUE, layer |-> layer]
  ELSE [raised |-> FALSE,
        layer |-> [layer EXCEPT !.state = <<[tok |-> tok, layer |-> NoRef, needsRedraw |-> TRUE]>>]]

\* Mutant of initializeNewLayer: the test `if (!layer.state)` is dropped, every
\* layer is initialized.
initializeNewLayerAlways(m, layer, ref) ==
  LET cb == InitializeLayerCallback(layer, m.nextTok)
      m1 == [m EXCEPT !.calls = Append(@, Event("initialize", ref, NoRef)),
                      !.nextTok = IF cb.layer.state # Null THEN @ + 1 ELSE @]
      linked == IF cb.layer.state # Null
                THEN [cb.layer EXCEPT !.state = <<[@[1] EXCEPT !.layer = ref]>>]
                ELSE cb.layer
  IN [error |-> IF cb.raised THEN Err("initialize", ref) ELSE Null,
      m |-> m1, layer |-> linked]

\* _initializeNewLayer(layer), for the layer object `layer` known as `ref`.
initializeNewLayer(m, layer, ref) ==
  IF layer.state = Null
  THEN LET cb == InitializeLayerCallback(layer, m.nextTok)
           m1 == [m EXCEPT !.calls = Append(@, Event("initialize", ref, NoRef)),
                           !.nextTok = IF cb.layer.state # Null THEN @ + 1 ELSE @]
           linked == IF cb.layer.state # Null
                     THEN [cb.layer EXCEPT !.state = <<[@[1] EXCEPT !.layer = ref]>>]
                     ELSE cb.layer
       IN [error |-> IF cb.raised THEN Err("initialize", ref) ELSE Null,
           m |-> m1, layer |-> linked]
  ELSE [error |-> Null, m |-> m, layer |-> layer]

\* Mutant of transferLayerState: `oldLayer.state = null` is left out.
transferLayerStateKeep(m, i, newLayer, ref) ==
  LET oldLayer == m.old[i]
      state == oldLayer.state
  IN IF state = Null \/ OldRef(i) = ref
     THEN [raised |-> Err("assert", OldRef(i)), m |-> m, layer |-> newLayer]
     ELSE [raised |-> Null,
           m |-> [m EXCEPT !.calls = Append(@, Event("transfer", ref, OldRef(i)))],
           layer |-> [newLayer EXCEPT !.state = <<[state[1] EXCEPT !.layer = ref]>>,
                                      !.oldProps = <<oldLayer.props>>]]

\* _transferLayerState(oldLayer, newLayer), oldLayer = m.old[i], newLayer known as ref.
\* The two are different objects: a new layer is a fresh object of this frame.
transferLayerState(m, i, newLayer, ref) ==
  LET oldLayer == m.old[i]
      state == oldLayer.state
  IN IF state = Null \/ OldRef(i) = ref
     THEN [raised |-> Err("assert", OldRef(i)), m |-> m, layer |-> newLayer]
     ELSE [raised |-> Null,
           m |-> [m EXCEPT !.old[i].state = Null,
                           !.calls = Append(@, Event("transfer", ref, OldRef(i)))],
           layer |-> [newLayer EXCEPT !.state = <<[state[1] EXCEPT !.layer = ref]>>,
                                      !.oldProps = <<oldLayer.props>>]]

RECURSIVE MatchLoop(_, _, _)

\* Mutant of MatchOne: `oldLayerMap[newLayer.id] = null` is left out, the slot
\* of the old layer map is not consumed.
MatchOneNoConsume(node, m) ==
  LET oldLayer == IF node.id \in DOMAIN m.map THEN m.map[node.id] ELSE Null
      ref == NewRef(Len(m.gen) + 1)
      t == IF oldLayer # Null
           THEN transferLayerState(m, oldLayer[1], NewLayer(node), ref)
           ELSE [raised |-> Null, m |-> m, layer |-> NewLayer(node)]
  IN IF t.raised # Null
     THEN [m |-> t.m, raised |-> t.raised]
     ELSE LET ini == initializeNewLayer(t.m, t.layer, ref)
              m2 == [ini.m EXCEPT !.gen = Append(@, ini.layer),
                                  !.calls = Append(@, Event("renderLayers", ref, NoRef))]
          IN IF "renderLayers" \in node.fails
             THEN [m |-> m2, raised |-> Err("renderLayers", ref)]
             ELSE [m |-> MatchLoop(FilterNull(node.children), m2, Null).m,
                   raised |-> Null]

\* The body of the loop of _matchSublayers for one new layer: what it leaves
\* behind and the error its try block caught, if any.
MatchOne(node, m) ==
  LET oldLayer == IF node.id \in DOMAIN m.map THEN m.map[node.id] ELSE Null
      m1 == [m EXCEPT !.map = (node.id :> Null) @@ @]
      ref == NewRef(Len(m.gen) + 1)
      t == IF oldLayer # Null
           THEN transferLayerState(m1, oldLayer[1], NewLayer(node), ref)
           ELSE [raised |-> Null, m |-> m1, layer |-> NewLayer(node)]
  IN IF t.raised # Null
     THEN [m |-> t.m, raised |-> t.raised]
     ELSE LET ini == initializeNewLayer(t.m, t.layer, ref)
              m2 == [ini.m EXCEPT !.gen = Append(@, ini.layer),
                                  !.calls = Append(@, Event("renderLayers", ref, NoRef))]
          IN IF "renderLayers" \in node.fails
             THEN [m |-> m2, raised |-> Err("renderLayers", ref)]
             ELSE [m |-> MatchLoop(FilterNull(node.children), m2, Null).m,
                   raised |-> Null]

\* Mutant of MatchLoop: the try block encloses the loop, the first error caught
\* ends the matching of the sequence.
MatchLoopAbort(ls, m, error) ==
  IF ls = <<>>
  THEN [m |-> m, error |-> error]
  ELSE LET r == MatchOne(Head(ls)[1], m)
       IN IF r.raised # Null
          THEN [m |-> r.m, error |-> r.raised]
          ELSE MatchLoop(Tail(ls), r.m, error)

\* The loop of _matchSublayers over the (filtered) new layers, `error` the
\* first error caught so far in this invocation.
MatchLoop(ls, m, error) ==
  IF ls = <<>>
  THEN [m |-> m, error |-> error]
  ELSE LET r == MatchOne(Head(ls)[1], m)
       IN MatchLoop(Tail(ls), r.m, OrElse(error, r.raised))

\* _matchSublayers({newLayers, oldLayerMap, generatedLayers})
matchSublayers(ls, m) == MatchLoop(FilterNull(ls), m, Null)

RECURSIVE OldLayerMapLast(_, _, _)
\* Mutant of OldLayerMap: the test `if (oldLayerMap[oldLayer.id])` is dropped,
\* a later old layer replaces an earlier one with the same id.
OldLayerMapLast(oldLayers, i, map) ==
  IF i > Len(oldLayers) THEN map
  ELSE OldLayerMapLast(oldLayers, i + 1, (oldLayers[i].id :> <<i>>) @@ map)

RECURSIVE OldLayerMap(_, _, _)
\* The loop of _matchLayers that creates the old layer map.
OldLayerMap(oldLayers, i, map) ==
  IF i > Len(oldLayers) THEN map
  ELSE IF oldLayers[i].id \in DOMAIN map /\ map[oldLayers[i].id] # Null
       THEN OldLayerMap(oldLayers, i + 1, map)
       ELSE OldLayerMap(oldLayers, i + 1, (oldLayers[i].id :> <<i>>) @@ map)

\* _matchLayers(oldLayers, newLayers)
matchLayers(oldLayers, ls) ==
  matchSublayers(ls, [old |-> oldLayers, gen |-> <<>>,
                      map |-> OldLayerMap(oldLayers, 1, <<>>),
                      calls |-> <<>>, nextTok |-> Len(oldLayers) + 1])

\* Mutant of finalizeLayer: the test `if (state)` is dropped, every old layer is
\* finalized.
finalizeLayerAlways(m, i) ==
  [error |-> IF "finalize" \in m.old[i].fails THEN Err("finalize", OldRef(i)) ELSE Null,
   m |-> [m EXCEPT !.old[i].state = Null,
                   !.calls = Append(@, Event("finalize", OldRef(i), NoRef))]]

\* _finalizeLayer(layer), layer = m.old[i]
finalizeLayer(m, i) ==
  IF m.old[i].state # Null
  THEN [error |-> IF "finalize" \in m.old[i].fails THEN Err("finalize", OldRef(i)) ELSE Null,
        m |-> [m EXCEPT !.old[i].state = Null,
                        !.calls = Append(@, Event("finalize", OldRef(i), NoRef))]]
  ELSE [error |-> Null, m |-> m]

RECURSIVE finalizeOldLayers(_, _, _)
\* _finalizeOldLayers(oldLayers), from the i-th layer on: error = error || this._finalizeLayer(layer)
finalizeOldLayers(m, i, error) ==
  IF i > Len(m.old) THEN [error |-> error, m |-> m]
  ELSE IF error # Null THEN finalizeOldLayers(m, i + 1, error)
  ELSE LET r == finalizeLayer(m, i) IN finalizeOldLayers(r.m, i + 1, r.error)

\* Mutant of updateLayer: the test `if (oldProps)` is dropped, every layer is updated.
updateLayerAll(m, j) ==
  [error |-> IF "update" \in m.gen[j].fails THEN Err("update", NewRef(j)) ELSE Null,
   m |-> [m EXCEPT !.calls = Append(@, Event("update", NewRef(j), NoRef))]]

\* _updateLayer(layer), layer = m.gen[j]
updateLayer(m, j) ==
  IF m.gen[j].oldProps # Null
  THEN [error |-> IF "update" \in m.gen[j].fails THEN Err("update", NewRef(j)) ELSE Null,
        m |-> [m EXCEPT !.calls = Append(@, Event("update", NewRef(j), NoRef))]]
  ELSE [error |-> Null, m |-> m]

RECURSIVE updateMatchedLayers(_, _, _)
\* _updateMatchedLayers(newLayers), from the j-th layer on: error = error || this._updateLayer(layer)
updateMatchedLayers(m, j, error) ==
  IF j > Len(m.gen) THEN [error |-> error, m |-> m]
  ELSE IF error # Null THEN updateMatchedLayers(m, j + 1, error)
  ELSE LET r == updateLayer(m, j) IN updateMatchedLayers(r.m, j + 1, r.error)

RECURSIVE initializeNewLayers(_, _, _)
\* _initializeNewLayers(layers), from the j-th layer on
initializeNewLayers(m, j, error) ==
  IF j > Len(m.gen) THEN [error |-> error, m |-> m]
  ELSE LET r == initializeNewLayer(m, m.gen[j], NewRef(j))
       IN initializeNewLayers([r.m EXCEPT !.gen[j] = r.layer], j + 1, OrElse(error, r.error))

\* Mutant of updateLayersPhases: the matched layers are updated before the old
\* layers are finalized.
updateLayersPhasesSwapped(oldLayers, ls) ==
  LET r1 == matchLayers(oldLayers, ls)
      r3 == updateMatchedLayers(r1.m, 1, Null)
      r2 == finalizeOldLayers(r3.m, 1, Null)
      r4 == initializeNewLayers(r2.m, 1, Null)
  IN [error |-> OrElse(r1.error, OrElse(r2.error, OrElse(r3.error, r4.error))),
      m |-> r4.m]

\* _updateLayers({oldLayers, newLayers})
updateLayersPhases(oldLayers, ls) ==
  LET r1 == matchLayers(oldLayers, ls)
      r2 == finalizeOldLayers(r1.m, 1, Null)
      r3 == updateMatchedLayers(r2.m, 1, Null)
      r4 == initializeNewLayers(r3.m, 1, Null)
  IN [error |-> OrElse(r1.error, OrElse(r2.error, OrElse(r3.error, r4.error))),
      m |-> r4.m]

\* The first position of `ls` that holds the state object with address tok.
FirstHolder(ls, tok) ==
  CHOOSE i \in 1..Len(ls) :
    /\ ls[i].state # Null /\ ls[i].state[1].tok = tok
    /\ \A k \in 1..(i - 1) : ls[k].state = Null \/ ls[k].state[1].tok # tok

\* this.prevLayers = this.layers: the layers of the live forest seen as the old
\* layers of the call. References <<"new", j>> now read <<"old", j>>, and state
\* objects are addressed by the position of the layer that holds them.
AsOldLayers(ls) ==
  [i \in 1..Len(ls) |->
     IF ls[i].state = Null THEN ls[i]
     ELSE [ls[i] EXCEPT !.state =
             <<[@[1] EXCEPT !.tok = FirstHolder(ls, ls[i].state[1].tok),
                            !.layer = IF @[1] = "new" THEN OldRef(@[2]) ELSE @]>>]]

\* ------------------------------------------------------------------------
\* The viewport context.
\* ------------------------------------------------------------------------
BaseCamera ==
  [width |-> 800, height |-> 600, latitude |-> 37, longitude |-> 122,
   zoom |-> 1, pitch |-> 0, bearing |-> 0, altitude |-> 2]

\* The camera parameters the application passes: the base camera, and the base
\* camera with one parameter changed.
CameraParams ==
  {BaseCamera} \cup { [BaseCamera EXCEPT ![f] = @ + 1] : f \in {"width", "zoom", "altitude"} }

\* new Viewport({..., tileSize: 512}): the object keeps the parameters it was made from.
Viewport(p) == p

\* The uniforms setContext derives from the viewport.
Uniforms(p) == <<[mercatorScale |-> 2 ^ p.zoom, viewport |-> Viewport(p)]>>

\* ------------------------------------------------------------------------
\* Initial state: the constructor.
\* ------------------------------------------------------------------------
Init ==
  /\ layers = <<>>
  /\ prevLayers = <<>>
  /\ drewLayers = FALSE
  /\ oldContext = Null
  /\ context = [viewport |-> Null, viewportChanged |-> TRUE, uniforms |-> Null]
  /\ op = "constructor"
  /\ frames = 0
  /\ newLayers = <<>>
  /\ before = <<>>
  /\ calls = <<>>
  /\ thrown = Null
  /\ redraw = [value |-> FALSE, emptied |-> FALSE]

\* ------------------------------------------------------------------------
\* Operations.
\* ------------------------------------------------------------------------

\* Mutant of UpdateLayers: the error is thrown before `this.layers =
\* generatedLayers`, a call that raises leaves the live forest as it was.
UpdateLayersThrowFirst(ls) ==
  LET oldLayers == AsOldLayers(layers)
      r == updateLayersPhases(oldLayers, FilterNull(ls))
  IN /\ prevLayers' = r.m.old
     /\ layers' = IF r.error # Null THEN r.m.old ELSE r.m.gen
     /\ thrown' = r.error
     /\ calls' = r.m.calls
     /\ before' = oldLayers
     /\ newLayers' = ls
     /\ op' = "updateLayers"
     /\ UNCHANGED <<drewLayers, oldContext, context, redraw>>

\* updateLayers({newLayers})
UpdateLayers(ls) ==
  LET oldLayers == AsOldLayers(layers)
      r == updateLayersPhases(oldLayers, FilterNull(ls))
  IN /\ prevLayers' = r.m.old
     /\ layers' = r.m.gen
     /\ thrown' = r.error
     /\ calls' = r.m.calls
     /\ before' = oldLayers
     /\ newLayers' = ls
     /\ op' = "updateLayers"
     /\ UNCHANGED <<drewLayers, oldContext, context, redraw>>

\* Mutant of SetContext: the comparison `pitch !== oldViewport.pitch` is left out.
SetContextNoPitch(p) ==
  LET oldViewport == context.viewport
      viewportChanged ==
        \/ oldViewport = Null
        \/ p.width # oldViewport[1].width
        \/ p.height # oldViewport[1].height
        \/ p.latitude # oldViewport[1].latitude
        \/ p.longitude # oldViewport[1].longitude
        \/ p.zoom # oldViewport[1].zoom
        \/ p.bearing # oldViewport[1].bearing
        \/ p.altitude # oldViewport[1].altitude
  IN /\ IF viewportChanged \/ context.viewport = Null
        THEN /\ oldContext' = <<context>>
             /\ context' = [viewport |-> <<Viewport(p)>>,
                            viewportChanged |-> viewportChanged,
                            uniforms |-> Uniforms(p)]
        ELSE UNCHANGED <<oldContext, context>>
     /\ op' = "setContext"
     /\ newLayers' = <<>> /\ before' = <<>> /\ calls' = <<>> /\ thrown' = Null
     /\ UNCHANGED <<layers, prevLayers, drewLayers, redraw>>

\* setContext({width, height, latitude, longitude, zoom, pitch, bearing, altitude})
SetContext(p) ==
  LET oldViewport == context.viewport
      viewportChanged ==
        \/ oldViewport = Null
        \/ p.width # oldViewport[1].width
        \/ p.height # oldViewport[1].height
        \/ p.latitude # oldViewport[1].latitude
        \/ p.longitude # oldViewport[1].longitude
        \/ p.zoom # oldViewport[1].zoom
        \/ p.bearing # oldViewport[1].bearing
        \/ p.pitch # oldViewport[1].pitch
        \/ p.altitude # oldViewport[1].altitude
  IN /\ IF viewportChanged \/ context.viewport = Null
        THEN /\ oldContext' = <<context>>
             /\ context' = [viewport |-> <<Viewport(p)>>,
                            viewportChanged |-> viewportChanged,
                            uniforms |-> Uniforms(p)]
        ELSE UNCHANGED <<oldContext, context>>
     /\ op' = "setContext"
     /\ newLayers' = <<>> /\ before' = <<>> /\ calls' = <<>> /\ thrown' = Null
     /\ UNCHANGED <<layers, prevLayers, drewLayers, redraw>>

\* Layer.getNeedsRedraw({clearRedrawFlags}): the flag of the layer's state,
\* reset when clearRedrawFlags is set.
GetNeedsRedraw(layer, clearRedrawFlags) ==
  IF layer.state = Null
  THEN [value |-> FALSE, layer |-> layer]
  ELSE [value |-> layer.state[1].needsRedraw,
        layer |-> IF clearRedrawFlags
                  THEN [layer EXCEPT !.state = <<[@[1] EXCEPT !.needsRedraw = FALSE]>>]
                  ELSE layer]

RECURSIVE NeedsRedrawLoop(_, _, _, _)
\* The loop of needsRedraw: redraw = redraw || layer.getNeedsRedraw({clearRedrawFlags})
NeedsRedrawLoop(ls, j, r, clearRedrawFlags) ==
  IF j > Len(ls) THEN [redraw |-> r, layers |-> ls]
  ELSE IF r THEN NeedsRedrawLoop(ls, j + 1, r, clearRedrawFlags)
  ELSE LET g == GetNeedsRedraw(ls[j], clearRedrawFlags)
       IN NeedsRedrawLoop([ls EXCEPT ![j] = g.layer], j + 1, g.value, clearRedrawFlags)

\* needsRedraw({clearRedrawFlags})
NeedsRedraw(clearRedrawFlags) ==
  LET r0 == (Len(layers) = 0 /\ drewLayers) \/ context.viewportChanged
      r == NeedsRedrawLoop(layers, 1, r0, clearRedrawFlags)
  IN /\ redraw' = [value |-> r.redraw, emptied |-> (Len(layers) = 0 /\ drewLayers)]
     /\ layers' = r.layers
     /\ drewLayers' = (Len(layers) > 0)
     /\ op' = "needsRedraw"
     /\ newLayers' = <<>> /\ before' = <<>> /\ calls' = <<>> /\ thrown' = Null
     /\ UNCHANGED <<prevLayers, oldContext, context>>

\* drawLayers()
DrawLayers ==
  /\ calls' = [e \in 1..Len(SelectSeq(layers, LAMBDA l : l.props.visible)) |->
                 Event("drawLayer", NewRef(e), NoRef)]
  /\ op' = "drawLayers"
  /\ newLayers' = <<>> /\ before' = <<>> /\ thrown' = Null
  /\ UNCHANGED <<layers, prevLayers, drewLayers, oldContext, context, redraw>>

\* A live layer marks itself as needing a redraw (Layer.setNeedsRedraw).
SetNeedsRedraw(j) ==
  /\ j \in 1..Len(layers)
  /\ layers[j].state # Null
  /\ layers' = [layers EXCEPT ![j].state = <<[@[1] EXCEPT !.needsRedraw = TRUE]>>]
  /\ op' = "setNeedsRedraw"
  /\ newLayers' = <<>> /\ before' = <<>> /\ calls' = <<>> /\ thrown' = Null
  /\ UNCHANGED <<prevLayers, drewLayers, oldContext, context, redraw>>

\* ------------------------------------------------------------------------
\* Specifications.
\* ------------------------------------------------------------------------

\* Reconciliation. In every frame the application renders a new forest, hands
\* it to updateLayers and then draws the live forest.
Next ==
  \/ \E ls \in NewForests :
       /\ op # "updateLayers"
       /\ frames < MaxFrames
       /\ UpdateLayers(ls)
       /\ frames' = frames + 1
  \/ /\ op = "updateLayers"
     /\ DrawLayers
     /\ UNCHANGED frames

Spec == Init /\ [][Next]_vars

\* Most entries in the tree rendered for one frame of a run of any length.
MaxSmallNodes == 2

\* The forests of the runs of any length.
SmallForests ==
  UNION { ForestsOf(FaultyIds, n, k) : n \in 0..MaxSmallNodes, k \in 0..MaxFaults }

\* Reconciliation over any number of frames, of small forests.
NextFrames ==
  \/ \E ls \in SmallForests :
       /\ op # "updateLayers"
       /\ UpdateLayers(ls)
       /\ UNCHANGED frames
  \/ /\ op = "updateLayers"
     /\ DrawLayers
     /\ UNCHANGED frames

SpecFrames == Init /\ [][NextFrames]_vars

\* Most entries in the tree rendered for one frame of the redraw specification.
MaxRedrawNodes == 2

\* The forests of the redraw specification: no callback fails.
RedrawForests == UNION { ForestsOf({"a", "b"}, n, 0) : n \in 0..MaxRedrawNodes }

\* Viewport and redraw tracking: the application moves the camera, replaces
\* the forest, asks whether a redraw is needed and draws, in any order, and
\* live layers become dirty at any time.
NextRedraw ==
  \/ \E p \in CameraParams : SetContext(p) /\ UNCHANGED frames
  \/ \E ls \in RedrawForests : UpdateLayers(ls) /\ UNCHANGED frames
  \/ \E c \in BOOLEAN : NeedsRedraw(c) /\ UNCHANGED frames
  \/ \E j \in 1..Len(layers) : SetNeedsRedraw(j) /\ UNCHANGED frames
  \/ DrawLayers /\ UNCHANGED frames

SpecRedraw == Init /\ [][NextRedraw]_vars

\* Reconciliation where the application, when updateLayers threw, may call
\* updateLayers again without drawing the frame.
NextRetry ==
  \/ \E ls \in SmallForests :
       /\ op # "updateLayers"
       /\ UpdateLayers(ls)
       /\ UNCHANGED frames
  \/ \E ls \in SmallForests :
       /\ op = "updateLayers" /\ thrown # Null
       /\ UpdateLayers(ls)
       /\ UNCHANGED frames
  \/ /\ op = "updateLayers"
     /\ DrawLayers
     /\ UNCHANGED frames

SpecRetry == Init /\ [][NextRetry]_vars

\* The camera parameters of the viewport specification: the base camera, and
\* the base camera with any one of its eight parameters changed.
AllCameraParams ==
  {BaseCamera} \cup { [BaseCamera EXCEPT ![f] = @ + 1] : f \in DOMAIN BaseCamera }

\* The viewport context alone: the application moves the camera, asks whether
\* a redraw is needed and draws, in any order, with no layers.
NextContext ==
  \/ \E p \in AllCameraParams : SetContext(p) /\ UNCHANGED frames
  \/ \E c \in BOOLEAN : NeedsRedraw(c) /\ UNCHANGED frames
  \/ DrawLayers /\ UNCHANGED frames

SpecContext == Init /\ [][NextContext]_vars

\* ------------------------------------------------------------------------
\* What the histories say about the last updateLayers call.
\* ------------------------------------------------------------------------
Reconciled == op = "updateLayers"

\* The positions in `calls` of the events o, and of the events o on the layer ref.
CallsOf(o) == {p \in DOMAIN calls : calls[p].op = o}
CallsOn(o, ref) == {p \in DOMAIN calls : calls[p].op = o /\ calls[p].layer = ref}

\* The layer object a reference of `calls` stands for.
LayerAt(ref) == IF ref[1] = "old" THEN before[ref[2]] ELSE layers[ref[2]]

\* The callback at position p of `calls` raised.
Raised(p) ==
  /\ calls[p].op \in Callbacks
  /\ calls[p].op \in LayerAt(calls[p].layer).fails

\* The new layers that were matched to an old layer.
MatchedLayers == {j \in DOMAIN layers : layers[j].oldProps # Null}

\* The transfers of the call: <<i, j>> when the state of old layer i went to new layer j.
Transfers == {<<calls[p].from[2], calls[p].layer[2]>> : p \in CallsOf("transfer")}

RECURSIVE FlatNodes(_)
\* The nodes of a rendered tree, depth first and left to right, holes dropped.
FlatNodes(ls) ==
  IF ls = <<>> THEN <<>>
  ELSE IF Head(ls) = Null THEN FlatNodes(Tail(ls))
  ELSE <<Head(ls)[1]>> \o FlatNodes(Head(ls)[1].children) \o FlatNodes(Tail(ls))

\* ------------------------------------------------------------------------
\* Claims.
\* ------------------------------------------------------------------------

\* C1: when the update callback of a matched layer raises, every matched layer
\* of the pass has received its update callback, and updateLayers throws.
C1_UpdateIsolation ==
  Reconciled =>
    \A x \in MatchedLayers :
      (\E p \in CallsOn("update", NewRef(x)) : Raised(p)) =>
        /\ \A y \in MatchedLayers : CallsOn("update", NewRef(y)) # {}
        /\ thrown # Null

RepeatedInitialize(p) ==
  \E r \in CallsOn("initialize", calls[p].layer) : r < p

C3_UnmatchedFinalized ==
  Reconciled =>
    \A i \in DOMAIN before :
      (before[i].state # Null /\ ~(\E t \in Transfers : t[1] = i)) =>
        /\ CallsOn("finalize", OldRef(i)) # {}
        /\ prevLayers[i].state = Null

\* C4: the old layer kept for an id (the first of the live forest with that id)
\* holds state, and the new forest has a layer with that id: after the call the
\* first layer of the live forest with that id holds that very state object and
\* has not been initialized. Every layer that received a state by transfer
\* holds that state object after the call and has not been initialized.
C4_StateKept ==
  Reconciled =>
    /\ \A i \in DOMAIN before :
         ( /\ before[i].state # Null
           /\ \A k \in 1..(i - 1) : before[k].id # before[i].id
           /\ \E e \in DOMAIN newLayers :
                newLayers[e] # Null /\ newLayers[e][1].id = before[i].id )
         => \E j \in DOMAIN layers :
              /\ layers[j].id = before[i].id
              /\ \A k \in 1..(j - 1) : layers[k].id # before[i].id
              /\ layers[j].state # Null
              /\ layers[j].state[1].tok = before[i].state[1].tok
              /\ CallsOn("initialize", NewRef(j)) = {}
    /\ \A t \in Transfers :
         /\ layers[t[2]].state # Null
         /\ layers[t[2]].state[1].tok = before[t[1]].state[1].tok
         /\ layers[t[2]].id = before[t[1]].id
         /\ CallsOn("initialize", NewRef(t[2])) = {}

\* A state object is handed on for the second frame in a row.
C4_Witness ==
  /\ Reconciled
  /\ \E t \in Transfers : before[t[1]].oldProps # Null /\ layers[t[2]].state # Null

\* The layer objects that are reachable from the manager, and the state of each.
Objects ==
  {NewRef(j) : j \in DOMAIN layers} \cup {OldRef(i) : i \in DOMAIN prevLayers}
StateOf(ref) == IF ref[1] = "old" THEN prevLayers[ref[2]].state ELSE layers[ref[2]].state

\* C5: no two layer objects hold the same state object; the back-link of the
\* state a live layer holds names that layer; the old layer of a transfer holds
\* no state after it.
C5_ExclusiveState ==
  /\ \A r1, r2 \in Objects :
       (r1 # r2 /\ StateOf(r1) # Null /\ StateOf(r2) # Null)
         => StateOf(r1)[1].tok # StateOf(r2)[1].tok
  /\ \A j \in DOMAIN layers :
       layers[j].state # Null => layers[j].state[1].layer = NewRef(j)
  /\ Reconciled => \A t \in Transfers : prevLayers[t[1]].state = Null

\* A call that transferred a state and in which the finalize callback of an
\* old layer raised.
C5_Witness ==
  /\ Reconciled
  /\ Transfers # {}
  /\ \E p \in CallsOf("finalize") : Raised(p)

\* C6: once a context is set, the needsRedraw call that finds the forest empty
\* after a check that saw layers returns true, and a needsRedraw call that
\* follows it at once (the forest still empty, no setContext in between)
\* returns false.
C6_ClearOnce ==
  [][ context.viewport # Null =>
        /\ (op' = "needsRedraw" /\ redraw'.emptied) => redraw'.value
        /\ (op = "needsRedraw" /\ redraw.emptied /\ op' = "needsRedraw") => ~redraw'.value
    ]_vars

\* C7: after a setContext call whose parameters are those of the existing
\* viewport, viewportChanged is false.
C7_ViewportChangedOneFrame ==
  [][ (op' = "setContext" /\ context.viewport # Null
         /\ context'.viewport = context.viewport)
        => ~context'.viewportChanged ]_vars

\* C8: when a callback of any layer raised during updateLayers, updateLayers
\* throws an error.
C8_NoFailureLost ==
  Reconciled => ((\E p \in DOMAIN calls : Raised(p)) => thrown # Null)

\* C9: in one updateLayers call a layer object receives each of initialize,
\* update and finalize at most once.
C9_AtMostOnce ==
  Reconciled =>
    \A p, q \in DOMAIN calls :
      (p # q /\ calls[p].op \in {"initialize", "update", "finalize"}
             /\ calls[p].op = calls[q].op)
        => calls[p].layer # calls[q].layer

\* The old forest is initialized, the ids of each forest are unique and no
\* callback of either forest fails.
C10_Pre ==
  /\ Reconciled
  /\ \A i \in DOMAIN before : before[i].state # Null /\ before[i].fails = {}
  /\ \A i, k \in DOMAIN before : i # k => before[i].id # before[k].id
  /\ LET nodes == FlatNodes(newLayers)
     IN /\ \A k \in DOMAIN nodes : nodes[k].fails = {}
        /\ \A k, l \in DOMAIN nodes : k # l => nodes[k].id # nodes[l].id

\* C10: under C10_Pre, the live forest is the new forest (flattened); a layer
\* whose id is in both forests got the state of the old layer by one transfer
\* and one update callback, and no initialize, and the old layer no finalize; a
\* layer whose id is only in the new forest got one initialize callback and no
\* update; an old layer whose id is only in the old forest got one finalize
\* callback; nothing is thrown.
C10_Reconciliation ==
  C10_Pre =>
    LET nodes == FlatNodes(newLayers)
    IN /\ Len(layers) = Len(nodes)
       /\ thrown = Null
       /\ Cardinality(Transfers) = Cardinality(CallsOf("transfer"))
       /\ \A j \in DOMAIN layers :
            /\ layers[j].id = nodes[j].id
            /\ layers[j].state # Null
            /\ IF \E i \in DOMAIN before : before[i].id = layers[j].id
               THEN /\ \E i \in DOMAIN before :
                         /\ before[i].id = layers[j].id
                         /\ {t \in Transfers : t[1] = i \/ t[2] = j} = {<<i, j>>}
                         /\ layers[j].state[1].tok = before[i].state[1].tok
                         /\ CallsOn("finalize", OldRef(i)) = {}
                    /\ Cardinality(CallsOn("update", NewRef(j))) = 1
                    /\ CallsOn("initialize", NewRef(j)) = {}
               ELSE /\ Cardinality(CallsOn("initialize", NewRef(j))) = 1
                    /\ CallsOn("update", NewRef(j)) = {}
                    /\ ~(\E t \in Transfers : t[2] = j)
       /\ \A i \in DOMAIN before :
            (~\E j \in DOMAIN layers : layers[j].id = before[i].id) =>
              /\ Cardinality(CallsOn("finalize", OldRef(i))) = 1
              /\ prevLayers[i].state = Null

\* A call under C10_Pre with an id in both forests, one only in the old forest
\* and one only in the new forest.
C10_Witness ==
  /\ C10_Pre
  /\ \E i \in DOMAIN before : \E j \in DOMAIN layers : layers[j].id = before[i].id
  /\ \E i \in DOMAIN before : \A j \in DOMAIN layers : layers[j].id # before[i].id
  /\ \E j \in DOMAIN layers : \A i \in DOMAIN before : before[i].id # layers[j].id

\* The forest handed to the call is the live forest rendered again: its layers,
\* depth first, are those of the live forest with the same ids, props and
\* callbacks.
SameForest ==
  /\ Reconciled
  /\ before # <<>>
  /\ LET nodes == FlatNodes(newLayers)
     IN /\ Len(nodes) = Len(before)
        /\ \A k \in DOMAIN nodes :
             nodes[k].id = before[k].id /\ nodes[k].fails = before[k].fails

C11_Pre ==
  /\ SameForest
  /\ \A i \in DOMAIN before : before[i].state # Null
  /\ \A i, k \in DOMAIN before : i # k => before[i].id # before[k].id

RECURSIVE Discovered(_, _)
\* What matching owes to each layer of a rendered tree when no layer is hindered
\* by another: walking the tree depth first with acc = [seen, out], seen the
\* ids looked up so far and out the layers owed a place in the output forest,
\* each with the old layer whose state it is owed (0 when it is new). A layer
\* whose own transfer fails (its old layer holds no state) is owed nothing, and
\* a layer whose renderLayers raises has no children.
Discovered(ls, acc) ==
  IF ls = <<>> THEN acc
  ELSE IF Head(ls) = Null THEN Discovered(Tail(ls), acc)
  ELSE LET n == Head(ls)[1]
           cands == {i \in DOMAIN before : before[i].id = n.id}
           old == IF n.id \in acc.seen \/ cands = {} THEN 0
                  ELSE CHOOSE i \in cands : \A k \in cands : i <= k
           acc1 == [acc EXCEPT !.seen = @ \cup {n.id}]
           acc2 == [acc1 EXCEPT !.out = Append(@, [id |-> n.id, old |-> old])]
       IN IF old # 0 /\ before[old].state = Null
          THEN Discovered(Tail(ls), acc1)
          ELSE Discovered(Tail(ls), IF "renderLayers" \in n.fails THEN acc2
                                    ELSE Discovered(n.children, acc2))

\* The layers of the call's new forest that are owed a place in the output forest.
Owed == Discovered(newLayers, [seen |-> {}, out |-> <<>>]).out

\* The top-level layers of the new forest, holes dropped.
TopLevel == FilterNull(newLayers)

\* The matching step of the first top-level layer raised: its transfer (the old
\* layer kept for its id holds no state), its initialize (it is new) or its
\* renderLayers.
FirstRaisedInMatching ==
  LET n == TopLevel[1][1]
      cands == {i \in DOMAIN before : before[i].id = n.id}
  IN IF cands = {}
     THEN "initialize" \in n.fails \/ "renderLayers" \in n.fails
     ELSE \/ before[CHOOSE i \in cands : \A k \in cands : i <= k].state = Null
          \/ "renderLayers" \in n.fails

FirstTransferFails ==
  /\ Reconciled
  /\ TopLevel # <<>>
  /\ LET cands == {i \in DOMAIN before : before[i].id = TopLevel[1][1].id}
     IN /\ cands # {}
        /\ before[CHOOSE i \in cands : \A k \in cands : i <= k].state = Null

\* C13: when the transfer to the first layer of the call is attempted from an
\* old layer without state, updateLayers throws the sanity-check error and no
\* layer is matched, initialized, updated or finalized in the call.
C13_HardFailure ==
  FirstTransferFails =>
    /\ thrown # Null
    /\ thrown[1].op = "assert"
    /\ calls = <<>>
    /\ layers = <<>>

\* C14: after updateLayers the live forest is the new forest flattened depth
\* first and left to right, holes dropped at every level: each layer, then the
\* children its renderLayers produced and their descendants, then its next
\* sibling.
C14_Flattening ==
  Reconciled =>
    LET nodes == FlatNodes(newLayers)
    IN /\ Len(layers) = Len(nodes)
       /\ \A j \in DOMAIN layers :
            layers[j].id = nodes[j].id /\ layers[j].fails = nodes[j].fails

\* C15: in one updateLayers call the state of an old layer goes to at most one
\* new layer, by one transfer; the layer that receives it has the id of the
\* old layer and is the first layer of the output forest with that id,
\* top-level layers and children alike; every later layer of the new forest
\* with an id seen before is in the output forest, received no transfer and
\* was initialized.
C15_OneToOne ==
  Reconciled =>
    /\ Cardinality(Transfers) = Cardinality(CallsOf("transfer"))
    /\ \A t, u \in Transfers : (t[1] = u[1] \/ t[2] = u[2]) => t = u
    /\ \A t \in Transfers :
         /\ layers[t[2]].id = before[t[1]].id
         /\ \A k \in 1..(t[2] - 1) : layers[k].id # layers[t[2]].id
    /\ \A j \in DOMAIN Owed :
         (\E k \in 1..(j - 1) : Owed[k].id = Owed[j].id) =>
           /\ j \in DOMAIN layers
           /\ layers[j].id = Owed[j].id
           /\ \A t \in Transfers : t[2] # j
           /\ CallsOn("initialize", NewRef(j)) # {}

\* The one old layer is a top-level layer; of two children with its id the
\* first took its state and the second was initialized.
C15_Witness ==
  /\ Reconciled
  /\ Len(before) = 1
  /\ Len(TopLevel) = 1
  /\ Len(layers) = 3
  /\ <<1, 2>> \in Transfers
  /\ layers[3].id = layers[2].id
  /\ CallsOn("initialize", NewRef(3)) # {}

\* C16: after an updateLayers call that threw, the previous forest holds the
\* layers that were live when the call began and the live forest is the
\* reconciled new forest; an updateLayers call that follows at once matches
\* against that forest: its old layers are the layers of the failed frame, and
\* every state it transfers comes from one of them.
C16_FailedFrameLive ==
  [][ (Reconciled /\ thrown # Null) =>
        /\ Len(prevLayers) = Len(before)
        /\ \A i \in DOMAIN before : prevLayers[i].id = before[i].id
        /\ Len(layers) = Len(Owed)
        /\ \A j \in DOMAIN layers : layers[j].id = Owed[j].id
        /\ op' = "updateLayers" =>
             /\ Len(prevLayers') = Len(layers)
             /\ \A i \in DOMAIN layers :
                  /\ prevLayers'[i].id = layers[i].id
                  /\ prevLayers'[i].fails = layers[i].fails
             /\ \A p \in DOMAIN calls' :
                  calls'[p].op = "transfer" =>
                    /\ layers[calls'[p].from[2]].state # Null
                    /\ layers[calls'[p].from[2]].id = layers'[calls'[p].layer[2]].id
    ]_vars

\* A call that threw, made on the forest of a frame whose call threw as well
\* (the update callback of a matched layer raised): it took a state over from
\* that forest and brought in a layer with a new id.
C16_Witness ==
  /\ Reconciled
  /\ thrown # Null
  /\ Transfers # {}
  /\ \E i \in DOMAIN before : "update" \in before[i].fails /\ before[i].oldProps # Null
  /\ \E j \in DOMAIN layers : \A i \in DOMAIN before : before[i].id # layers[j].id

\* The eight camera parameters p are those of the existing viewport.
SameCamera(p) ==
  /\ context.viewport # Null
  /\ \A f \in DOMAIN p : p[f] = context.viewport[1][f]

\* C17: a setContext call whose eight parameters are those of the existing
\* viewport leaves the context (viewport, uniforms, viewportChanged) and the
\* old context as they are; a call with a parameter that differs, or the first
\* call, makes the old context a copy of the context as it was and replaces
\* the viewport and the uniforms by those of the parameters.
C17_SetContextEffect ==
  [][ \A p \in AllCameraParams :
        SetContext(p) =>
          IF SameCamera(p)
          THEN context' = context /\ oldContext' = oldContext
          ELSE /\ oldContext' = <<context>>
               /\ context'.viewport = <<Viewport(p)>>
               /\ context'.uniforms = Uniforms(p)
               /\ context'.viewport # context.viewport
    ]_vars

\* The context after a call that changed the pitch of the existing viewport:
\* the old context holds the former viewport.
C17_Witness ==
  /\ op = "setContext"
  /\ context.viewport # Null
  /\ oldContext # Null
  /\ oldContext[1].viewport # Null
  /\ oldContext[1].viewport[1].pitch # context.viewport[1].pitch

\* The old layers that share their id with an earlier old layer.
LaterDuplicates ==
  {i \in DOMAIN before : \E k \in 1..(i - 1) : before[k].id = before[i].id}

AllClean ==
  \A j \in DOMAIN layers : layers[j].state # Null => ~layers[j].state[1].needsRedraw

\* C19: after a needsRedraw call with clearRedrawFlags set no layer of the
\* live forest is dirty, and a needsRedraw call that follows a needsRedraw
\* call which left no layer dirty and a non-empty forest returns false.
C19_FlagsCleared ==
  [][ /\ NeedsRedraw(TRUE) => AllClean'
      /\ (op = "needsRedraw" /\ AllClean /\ layers # <<>> /\ op' = "needsRedraw")
           => ~redraw'.value
    ]_vars

\* C20: after updateLayers every layer passed in newLayers (holes aside) is in
\* the live forest.
C20_AllLayersLive ==
  Reconciled =>
    \A e \in DOMAIN TopLevel :
      \E j \in DOMAIN layers :
        layers[j].id = TopLevel[e][1].id /\ layers[j].fails = TopLevel[e][1].fails

====
